---- MODULE Spec2Model ----
(***************************************************************************)
(* A model of npm-compromised-scan (src/src/main.rs): the denylist parser  *)
(* (parse_compromised_file, parse_compromised_entry), the flattening of    *)
(* the npm dependency tree (collect_deps, traverse) and the classification *)
(* of the flattened dependencies (find_matches).                           *)
(*                                                                         *)
(* A Rust String is a sequence of code points (numbers), so that the       *)
(* derived Ord of Dep, which compares strings bytewise, is computed and    *)
(* not assumed.                                                            *)
(***************************************************************************)
EXTENDS Integers, Sequences, FiniteSets, TLC

VARIABLES
    content, lineno, exact, names, ret,   \* parse_compromised_file
    line, entry,                          \* parse_compromised_entry
    root, stack, acc, seen, flat,         \* collect_deps / traverse
    deps, lists, pos, matches, found      \* find_matches

vars == <<content, lineno, exact, names, ret, line, entry,
          root, stack, acc, seen, flat, deps, lists, pos, matches, found>>

parseVars == <<content, lineno, exact, names, ret>>
entryVars == <<line, entry>>
treeVars  == <<root, stack, acc, seen, flat>>
matchVars == <<deps, lists, pos, matches, found>>

----------------------------------------------------------------------------
(* Bounds of the model. *)

\* longest denylist text, in characters
MaxLen == 5
\* longest single denylist line handed to parse_compromised_entry
MaxLineLen == 5

----------------------------------------------------------------------------
(* Characters. *)

LF    == 10
CR    == 13
SP    == 32
HASH  == 35
SLASH == 47
AT    == 64

\* char::is_whitespace, ASCII part (str::trim)
IsWhitespace(c) == c \in {9, 10, 11, 12, 13, 32}

\* char::is_ascii_alphanumeric
IsAsciiAlphanumeric(c) == c \in (48..57) \cup (65..90) \cup (97..122)

\* '#' and ' ' double as the characters that are neither alphanumeric nor '/'
\* (97 is the letter 'a')
Alphabet == {LF, SP, HASH, AT, SLASH, 97}

StringsUpTo(n) == UNION {[1..k -> Alphabet] : k \in 0..n}

----------------------------------------------------------------------------
(* str helpers. *)

Contains(s, c) == \E i \in 1..Len(s) : s[i] = c

StartsWith(s, c) == Len(s) > 0 /\ s[1] = c

\* line.matches('@').count()
CountOf(s, c) == Cardinality({i \in 1..Len(s) : s[i] = c})

\* the first occurrence instead of the last (find for rfind)
FindFirst(s, c) == CHOOSE i \in 1..Len(s) :
                      /\ s[i] = c
                      /\ \A j \in 1..(i-1) : s[j] # c

\* line.rfind(c).unwrap(), as a 1-based index
RFind(s, c) == CHOOSE i \in 1..Len(s) :
                  /\ s[i] = c
                  /\ \A j \in (i+1)..Len(s) : s[j] # c

\* str::trim
Trim(s) ==
    LET keep == {i \in 1..Len(s) : ~IsWhitespace(s[i])}
    IN  IF keep = {} THEN <<>>
        ELSE LET lo == CHOOSE i \in keep : \A j \in keep : i <= j
                 hi == CHOOSE i \in keep : \A j \in keep : j <= i
             IN  SubSeq(s, lo, hi)

\* one line of str::lines: the terminator "\n" or "\r\n" is not part of it
StripEol(s) ==
    LET n == Len(s)
    IN  IF n >= 1 /\ s[n] = LF
        THEN IF n >= 2 /\ s[n-1] = CR THEN SubSeq(s, 1, n-2) ELSE SubSeq(s, 1, n-1)
        ELSE s

RECURSIVE SplitInclusive(_)
\* the pieces of s, each ending with its "\n" (the last one may lack it)
SplitInclusive(s) ==
    IF s = <<>> THEN <<>>
    ELSE IF Contains(s, LF)
         THEN LET i == CHOOSE k \in 1..Len(s) :
                          s[k] = LF /\ \A j \in 1..(k-1) : s[j] # LF
              IN  <<SubSeq(s, 1, i)>> \o SplitInclusive(SubSeq(s, i+1, Len(s)))
         ELSE <<s>>

\* str::lines, collected
Lines(s) == LET p == SplitInclusive(s) IN [i \in 1..Len(p) |-> StripEol(p[i])]

----------------------------------------------------------------------------
(* parse_compromised_entry *)

Name(n) == [tag |-> "Name", name |-> n]
Exact(n, v) == [tag |-> "Exact", name |-> n, version |-> v]
Invalid(r) == [tag |-> "Invalid", reason |-> r]

\* the two checks of the version part in the other order
ValidateAlnumFirst(l) ==
    LET last_at   == RFind(l, AT)
        name_part == SubSeq(l, 1, last_at - 1)
        ver_part  == SubSeq(l, last_at + 1, Len(l))
    IN  IF name_part = <<>> THEN Invalid("Empty name part")
        ELSE IF ver_part = <<>> THEN Invalid("Empty version part")
        ELSE IF ~IsAsciiAlphanumeric(ver_part[1])
             THEN Invalid("Version does not start with alphanumeric")
        ELSE IF Contains(ver_part, SLASH) THEN Invalid("Version contains '/'")
        ELSE Exact(name_part, ver_part)

\* the split at the last '@' and the validation of the two parts
ValidateCandidate(l) ==
    LET last_at   == RFind(l, AT)
        name_part == SubSeq(l, 1, last_at - 1)
        ver_part  == SubSeq(l, last_at + 1, Len(l))
    IN  IF name_part = <<>> THEN Invalid("Empty name part")
        ELSE IF ver_part = <<>> THEN Invalid("Empty version part")
        ELSE IF Contains(ver_part, SLASH) THEN Invalid("Version contains '/'")
        ELSE IF ~IsAsciiAlphanumeric(ver_part[1])
             THEN Invalid("Version does not start with alphanumeric")
        ELSE Exact(name_part, ver_part)

\* a scoped line is a candidate from its first '@' on (at_count < 1 for < 2)
EntryScopedOffByOne(l) ==
    IF ~Contains(l, AT) THEN Name(l)
    ELSE LET at_count == CountOf(l, AT)
         IN  IF StartsWith(l, AT)
             THEN IF at_count < 1 THEN Name(l) ELSE ValidateCandidate(l)
             ELSE IF at_count = 1 THEN ValidateCandidate(l)
                  ELSE Invalid("Too many @ characters for unscoped package")

\* an unscoped line with several '@' is split at its last '@' like the others
EntryNoTooMany(l) ==
    IF ~Contains(l, AT) THEN Name(l)
    ELSE LET at_count == CountOf(l, AT)
         IN  IF StartsWith(l, AT) /\ at_count < 2 THEN Name(l) ELSE ValidateCandidate(l)

parse_compromised_entry(l) ==
    IF ~Contains(l, AT) THEN Name(l)
    ELSE LET at_count == CountOf(l, AT)
         IN  IF StartsWith(l, AT)
             THEN IF at_count < 2 THEN Name(l) ELSE ValidateCandidate(l)
             ELSE IF at_count = 1 THEN ValidateCandidate(l)
                  ELSE Invalid("Too many @ characters for unscoped package")

----------------------------------------------------------------------------
(* parse_compromised_file: one action per iteration of the loop over       *)
(* content.lines().enumerate(), and one for the return after the loop.     *)

Running == [tag |-> "Running"]

\* the loop variable: lineno is the 0-based index of enumerate()
HasLine == ret.tag = "Running" /\ lineno < Len(Lines(content))
CurLine == Trim(Lines(content)[lineno + 1])
Skipped(l) == l = <<>> \/ StartsWith(l, HASH)

ParseSkip ==
    /\ HasLine
    /\ Skipped(CurLine)
    /\ lineno' = lineno + 1
    /\ UNCHANGED <<content, exact, names, ret>>

ParseName ==
    /\ HasLine
    /\ ~Skipped(CurLine)
    /\ LET e == parse_compromised_entry(CurLine)
       IN  /\ e.tag = "Name"
           /\ names' = names \cup {e.name}
    /\ lineno' = lineno + 1
    /\ UNCHANGED <<content, exact, ret>>

\* an exact entry that does not register its name
ParseExactNoName ==
    /\ HasLine
    /\ ~Skipped(CurLine)
    /\ LET e == parse_compromised_entry(CurLine)
       IN  /\ e.tag = "Exact"
           /\ exact' = exact \cup {<<e.name, e.version>>}
    /\ lineno' = lineno + 1
    /\ UNCHANGED <<content, names, ret>>

ParseExact ==
    /\ HasLine
    /\ ~Skipped(CurLine)
    /\ LET e == parse_compromised_entry(CurLine)
       IN  /\ e.tag = "Exact"
           /\ names' = names \cup {e.name}
           /\ exact' = exact \cup {<<e.name, e.version>>}
    /\ lineno' = lineno + 1
    /\ UNCHANGED <<content, ret>>

\* the error carries the 0-based index of enumerate()
ParseInvalidZeroBased ==
    /\ HasLine
    /\ ~Skipped(CurLine)
    /\ LET e == parse_compromised_entry(CurLine)
       IN  /\ e.tag = "Invalid"
           /\ ret' = [tag |-> "Err", lineno |-> lineno, line |-> CurLine,
                      reason |-> e.reason]
    /\ UNCHANGED <<content, lineno, exact, names>>

ParseInvalid ==
    /\ HasLine
    /\ ~Skipped(CurLine)
    /\ LET e == parse_compromised_entry(CurLine)
       IN  /\ e.tag = "Invalid"
           /\ ret' = [tag |-> "Err", lineno |-> lineno + 1, line |-> CurLine,
                      reason |-> e.reason]
    /\ UNCHANGED <<content, lineno, exact, names>>

ParseReturn ==
    /\ ret.tag = "Running"
    /\ lineno = Len(Lines(content))
    /\ ret' = [tag |-> "Ok", exact |-> exact, names |-> names]
    /\ UNCHANGED <<content, lineno, exact, names>>

----------------------------------------------------------------------------
(* Idle values of the components a specification does not run. *)

ParseIdle == content = <<>> /\ lineno = 0 /\ exact = {} /\ names = {} /\ ret = [tag |-> "Idle"]
EntryIdle == line = <<>> /\ entry = [tag |-> "Idle"]
TreeIdle  == root = [tag |-> "Idle"] /\ stack = <<>> /\ acc = <<>> /\ seen = {} /\ flat = [tag |-> "Idle"]
MatchIdle == deps = <<>> /\ lists = [exact |-> {}, names |-> {}] /\ pos = 0 /\ matches = <<>> /\ found = [tag |-> "Idle"]

----------------------------------------------------------------------------
(* SpecParse: parse_compromised_file over every denylist text of the bound *)

Texts == StringsUpTo(MaxLen)

InitParse ==
    /\ content \in Texts
    /\ lineno = 0
    /\ exact = {}
    /\ names = {}
    /\ ret = Running
    /\ EntryIdle /\ TreeIdle /\ MatchIdle

NextParse ==
    \/ ParseSkip /\ UNCHANGED <<entryVars, treeVars, matchVars>>
    \/ ParseName /\ UNCHANGED <<entryVars, treeVars, matchVars>>
    \/ ParseExact /\ UNCHANGED <<entryVars, treeVars, matchVars>>
    \/ ParseInvalid /\ UNCHANGED <<entryVars, treeVars, matchVars>>
    \/ ParseReturn /\ UNCHANGED <<entryVars, treeVars, matchVars>>

SpecParse == InitParse /\ [][NextParse]_vars

----------------------------------------------------------------------------
(* SpecEntry: parse_compromised_entry as a pure function, over every line  *)
(* of the bound and the example lines of the documentation.                *)

\* "foo@"
L_foo_at == <<102, 111, 111, 64>>
\* "@foo"
L_at_foo == <<64, 102, 111, 111>>
\* "foo@/bar"
L_foo_at_slash_bar == <<102, 111, 111, 64, 47, 98, 97, 114>>
\* "foo@bar/baz"
L_foo_at_bar_slash_baz == <<102, 111, 111, 64, 98, 97, 114, 47, 98, 97, 122>>
\* "foo@-bar"
L_foo_at_dash_bar == <<102, 111, 111, 64, 45, 98, 97, 114>>
\* "a@b@c"
L_a_at_b_at_c == <<97, 64, 98, 64, 99>>
\* "foo@1.2.3"
L_foo_at_123 == <<102, 111, 111, 64, 49, 46, 50, 46, 51>>
\* "@scope/pkg"
L_scope_pkg == <<64, 115, 99, 111, 112, 101, 47, 112, 107, 103>>
\* "@scope/pkg@2.0.0"
L_scope_pkg_at_200 == L_scope_pkg \o <<64, 50, 46, 48, 46, 48>>

ExampleLines == {L_foo_at, L_at_foo, L_foo_at_slash_bar, L_foo_at_bar_slash_baz,
                 L_foo_at_dash_bar, L_a_at_b_at_c, L_foo_at_123, L_scope_pkg,
                 L_scope_pkg_at_200}

EntryLines == UNION {[1..k -> Alphabet \ {LF}] : k \in 0..MaxLineLen} \cup ExampleLines

ParseEntry ==
    /\ entry.tag = "Pending"
    /\ entry' = parse_compromised_entry(line)
    /\ UNCHANGED line

InitEntry ==
    /\ line \in EntryLines
    /\ entry = [tag |-> "Pending"]
    /\ ParseIdle /\ TreeIdle /\ MatchIdle

NextEntry == ParseEntry /\ UNCHANGED <<parseVars, treeVars, matchVars>>

SpecEntry == InitEntry /\ [][NextEntry]_vars

----------------------------------------------------------------------------
(* The npm tree document (serde_json::Value), as far as collect_deps reads *)
(* it: a node's "version" and "dependencies" members. A member is absent,  *)
(* or a string / an object, or a JSON value of another type ("other", for  *)
(* which as_str() and as_object() are None). A node that is not a JSON     *)
(* object has no members: it reads as a node with both members absent.     *)

Absent == [kind |-> "absent"]
Other  == [kind |-> "other"]
Str(s) == [kind |-> "string", str |-> s]
Obj(m) == [kind |-> "object", map |-> m]

\* the package names "", "b" and the versions "", "1", "2"
PkgNames == <<(<<>>), <<98>>>>
Versions == {<<>>, <<49>>, <<50>>}

VersionFields == {Absent, Other} \cup {Str(v) : v \in Versions}

EmptyMap == [k \in {} |-> Absent]

\* S \cup T, of two sets whose elements TLC has put in order (Cardinality
\* does that), which keeps the union of two large sets fast
Cup(S, T) ==
    LET s == S
        t == T
    IN  IF Cardinality(s) >= 0 /\ Cardinality(t) >= 0 THEN s \cup t ELSE {}

RECURSIVE NodesOfSize(_), MapsOfSize(_, _), MapsWithName(_, _, _)
\* the nodes whose subtree holds n nodes
NodesOfSize(n) ==
    LET ds == Cup(IF n = 1 THEN {Absent, Other} ELSE {},
                  {Obj(f) : f \in MapsOfSize(1, n - 1)})
    IN  {[version |-> v, dependencies |-> d] : v \in VersionFields, d \in ds}

\* the mappings name -> node over the names from the i-th on whose nodes hold
\* m nodes in all: without the i-th name, or with it
MapsOfSize(i, m) ==
    IF i > Len(PkgNames) THEN (IF m = 0 THEN {EmptyMap} ELSE {})
    ELSE Cup(MapsOfSize(i + 1, m), MapsWithName(i, m, 1))

\* ... where the i-th name maps to a node of s nodes or more
MapsWithName(i, m, s) ==
    IF s > m THEN {}
    ELSE Cup({(PkgNames[i] :> nd) @@ f :
                 nd \in NodesOfSize(s), f \in MapsOfSize(i + 1, m - s)},
             MapsWithName(i, m, s + 1))

RECURSIVE MapsUpTo(_)
MapsUpTo(n) == IF n < 0 THEN {} ELSE Cup(MapsUpTo(n - 1), MapsOfSize(1, n))

\* the documents with at most n nodes under the root
DocsUpTo(n) ==
    {[dependencies |-> d] : d \in Cup({Absent, Other}, {Obj(f) : f \in MapsUpTo(n)})}

----------------------------------------------------------------------------
(* Dep and its derived Ord: by name, then by version, each compared as     *)
(* String, that is lexicographically by code point.                        *)

Dep(n, v) == [name |-> n, version |-> v]

StrLess(a, b) ==
    \E i \in 1..(Len(b)) :
        /\ \A j \in 1..(i-1) : j <= Len(a) /\ a[j] = b[j]
        /\ \/ i = Len(a) + 1
           \/ i <= Len(a) /\ a[i] < b[i]

DepLess(x, y) ==
    \/ StrLess(x.name, y.name)
    \/ x.name = y.name /\ StrLess(x.version, y.version)

RECURSIVE InsertSorted(_, _)
InsertSorted(s, x) ==
    IF s = <<>> THEN <<x>>
    ELSE IF DepLess(x, Head(s)) THEN <<x>> \o s
         ELSE <<Head(s)>> \o InsertSorted(Tail(s), x)

RECURSIVE SortedOf(_)
SortedOf(s) ==
    IF s = <<>> THEN <<>>
    ELSE InsertSorted(SortedOf(SubSeq(s, 1, Len(s) - 1)), s[Len(s)])

\* the accumulator returned in traversal order
SortNone(s) == s

\* acc.sort()
Sort(s) == SortedOf(s)

----------------------------------------------------------------------------
(* collect_deps and traverse. The recursion of traverse is a stack of the  *)
(* calls still to make, the next one on top. The order in which a          *)
(* serde_json map yields its entries depends on the build (sorted by key,  *)
(* or document order with preserve_order): every order is allowed.         *)

Orders(S) == {o \in [1..Cardinality(S) -> S] : \A i, j \in 1..Cardinality(S) : o[i] = o[j] => i = j}

\* the calls traverse(name, node) for the entries of a "dependencies" member
Calls(d, o) == [i \in 1..Len(o) |-> [name |-> o[i], node |-> d.map[o[i]]]]

CollectBegin ==
    /\ flat.tag = "Start"
    /\ LET d == root.dependencies
       IN  IF d.kind = "object"
           THEN \E o \in Orders(DOMAIN d.map) : stack' = Calls(d, o)
           ELSE stack' = <<>>
    /\ flat' = [tag |-> "Loop"]
    /\ UNCHANGED <<root, acc, seen>>

\* the version a node is recorded under, if any
Recorded(call) == call.node.version.kind = "string"
KeyOf(call) == <<call.name, call.node.version.str>>

\* the recursion placed inside the "if let Some(version)"
TraverseStopsAtVersionless ==
    /\ flat.tag = "Loop"
    /\ stack # <<>>
    /\ LET call == Head(stack)
           d    == call.node.dependencies
       IN  /\ IF Recorded(call) /\ KeyOf(call) \notin seen
              THEN /\ seen' = seen \cup {KeyOf(call)}
                   /\ acc' = Append(acc, Dep(call.name, call.node.version.str))
              ELSE UNCHANGED <<acc, seen>>
           /\ IF Recorded(call) /\ d.kind = "object"
              THEN \E o \in Orders(DOMAIN d.map) : stack' = Calls(d, o) \o Tail(stack)
              ELSE stack' = Tail(stack)
    /\ UNCHANGED <<root, flat>>

\* a node without a string version recorded under the version ""
TraverseRecordsVersionless ==
    /\ flat.tag = "Loop"
    /\ stack # <<>>
    /\ LET call == Head(stack)
           d    == call.node.dependencies
           v    == IF Recorded(call) THEN call.node.version.str ELSE <<>>
       IN  /\ IF <<call.name, v>> \notin seen
              THEN /\ seen' = seen \cup {<<call.name, v>>}
                   /\ acc' = Append(acc, Dep(call.name, v))
              ELSE UNCHANGED <<acc, seen>>
           /\ IF d.kind = "object"
              THEN \E o \in Orders(DOMAIN d.map) : stack' = Calls(d, o) \o Tail(stack)
              ELSE stack' = Tail(stack)
    /\ UNCHANGED <<root, flat>>

Traverse ==
    /\ flat.tag = "Loop"
    /\ stack # <<>>
    /\ LET call == Head(stack)
           d    == call.node.dependencies
       IN  /\ IF Recorded(call) /\ KeyOf(call) \notin seen
              THEN /\ seen' = seen \cup {KeyOf(call)}
                   /\ acc' = Append(acc, Dep(call.name, call.node.version.str))
              ELSE UNCHANGED <<acc, seen>>
           /\ IF d.kind = "object"
              THEN \E o \in Orders(DOMAIN d.map) : stack' = Calls(d, o) \o Tail(stack)
              ELSE stack' = Tail(stack)
    /\ UNCHANGED <<root, flat>>

CollectReturn ==
    /\ flat.tag = "Loop"
    /\ stack = <<>>
    /\ flat' = [tag |-> "Ok", deps |-> Sort(acc)]
    /\ UNCHANGED <<root, stack, acc, seen>>

\* most nodes of a tree document, the root aside
MaxNodes == 3

InitTree ==
    /\ root \in DocsUpTo(MaxNodes)
    /\ stack = <<>>
    /\ acc = <<>>
    /\ seen = {}
    /\ flat = [tag |-> "Start"]
    /\ ParseIdle /\ EntryIdle /\ MatchIdle

NextTree ==
    \/ CollectBegin /\ UNCHANGED <<parseVars, entryVars, matchVars>>
    \/ Traverse /\ UNCHANGED <<parseVars, entryVars, matchVars>>
    \/ CollectReturn /\ UNCHANGED <<parseVars, entryVars, matchVars>>

SpecTree == InitTree /\ [][NextTree]_vars

----------------------------------------------------------------------------
(* find_matches: one action per iteration of the loop over deps, and one   *)
(* for the return after the loop.                                          *)

MatchRecord(t, d) == [match_type |-> t, name |-> d.name, version |-> d.version]

\* the exact set looked up by name alone
InExactByName(d) == \E p \in lists.exact : p[1] = d.name

InExact(d) == <<d.name, d.version>> \in lists.exact
InNames(d) == d.name \in lists.names

MatchLoop == found.tag = "Running" /\ pos < Len(deps)

MatchExact ==
    /\ MatchLoop
    /\ InExact(deps[pos + 1])
    /\ matches' = Append(matches, MatchRecord("exact", deps[pos + 1]))
    /\ pos' = pos + 1
    /\ UNCHANGED <<deps, lists, found>>

MatchName ==
    /\ MatchLoop
    /\ ~InExact(deps[pos + 1])
    /\ InNames(deps[pos + 1])
    /\ matches' = Append(matches, MatchRecord("name", deps[pos + 1]))
    /\ pos' = pos + 1
    /\ UNCHANGED <<deps, lists, found>>

MatchNone ==
    /\ MatchLoop
    /\ ~InExact(deps[pos + 1])
    /\ ~InNames(deps[pos + 1])
    /\ pos' = pos + 1
    /\ UNCHANGED <<deps, lists, matches, found>>

MatchReturn ==
    /\ found.tag = "Running"
    /\ pos = Len(deps)
    /\ found' = [tag |-> "Ok", matches |-> matches, any |-> matches # <<>>]
    /\ UNCHANGED <<deps, lists, pos, matches>>

MatchNames == {PkgNames[i] : i \in 1..Len(PkgNames)}
MatchDeps == {Dep(n, v) : n \in MatchNames, v \in Versions}

\* the dependency lists collect_deps can return: strictly ascending
DepLists ==
    {s \in UNION {[1..k -> MatchDeps] : k \in 0..Cardinality(MatchDeps)} :
        \A i \in 1..(Len(s) - 1) : DepLess(s[i], s[i+1])}

InitMatch ==
    /\ deps \in DepLists
    /\ lists \in [exact : SUBSET (MatchNames \X Versions), names : SUBSET MatchNames]
    /\ pos = 0
    /\ matches = <<>>
    /\ found = [tag |-> "Running"]
    /\ ParseIdle /\ EntryIdle /\ TreeIdle

NextMatch ==
    \/ MatchExact /\ UNCHANGED <<parseVars, entryVars, treeVars>>
    \/ MatchName /\ UNCHANGED <<parseVars, entryVars, treeVars>>
    \/ MatchNone /\ UNCHANGED <<parseVars, entryVars, treeVars>>
    \/ MatchReturn /\ UNCHANGED <<parseVars, entryVars, treeVars>>

SpecMatch == InitMatch /\ [][NextMatch]_vars

----------------------------------------------------------------------------
(* Properties of find_matches (SpecMatch).                                 *)

Listed(d) == <<d.name, d.version>> \in lists.exact \/ d.name \in lists.names
RecordsOf(ms, d) == {j \in 1..Len(ms) : ms[j].name = d.name /\ ms[j].version = d.version}
\* the place in deps of the dependency a record is about
PlaceOf(m) == CHOOSE i \in 1..Len(deps) : deps[i] = Dep(m.name, m.version)

\* C1: find_matches returns one record for each dep that is in lists.exact
\* (by name and version) or in lists.names (by name) and none for any other
\* dep; the record is "exact" exactly when (name, version) is in lists.exact
\* and "name" otherwise; the records keep the order of the deps; and the
\* boolean is true exactly when there is a record.
C1_FindMatches ==
    found.tag = "Ok" =>
        LET ms == found.matches
        IN  /\ \A i \in 1..Len(deps) :
                  Cardinality(RecordsOf(ms, deps[i])) = IF Listed(deps[i]) THEN 1 ELSE 0
            /\ \A j \in 1..Len(ms) :
                  /\ \E i \in 1..Len(deps) : deps[i] = Dep(ms[j].name, ms[j].version)
                  /\ ms[j].match_type =
                        IF <<ms[j].name, ms[j].version>> \in lists.exact THEN "exact" ELSE "name"
            /\ \A j, k \in 1..Len(ms) : j < k => PlaceOf(ms[j]) < PlaceOf(ms[k])
            /\ found.any = (Len(ms) > 0)

\* a run that reports an "exact" record for a dep whose name is also in
\* lists.names, then a "name" record, and leaves a dep unreported
C1_Witness ==
    /\ found.tag = "Ok"
    /\ \E j, k \in 1..Len(found.matches) :
          /\ j < k
          /\ found.matches[j].match_type = "exact"
          /\ found.matches[j].name \in lists.names
          /\ found.matches[k].match_type = "name"
    /\ \E i \in 1..Len(deps) : ~Listed(deps[i])
    /\ found.any

----------------------------------------------------------------------------
(* Properties of parse_compromised_file (SpecParse).                       *)

\* C2: at every point of the parse, and in the Lists value returned, every
\* (name, version) pair of the exact set has its name in the names set.
C2_ExactNamesListed ==
    /\ \A p \in exact : p[1] \in names
    /\ ret.tag = "Ok" => \A p \in ret.exact : p[1] \in ret.names

\* an accepted text with an exact entry followed by a name-only entry
C2_Witness ==
    /\ ret.tag = "Ok"
    /\ ret.exact # {}
    /\ Cardinality(ret.names) >= 2

RawLines == Lines(content)
InvalidAt(i) ==
    LET l == Trim(RawLines[i])
    IN  ~Skipped(l) /\ parse_compromised_entry(l).tag = "Invalid"
HasInvalid == \E i \in 1..Len(RawLines) : InvalidAt(i)
FirstInvalid == CHOOSE i \in 1..Len(RawLines) : InvalidAt(i) /\ \A j \in 1..(i-1) : ~InvalidAt(j)

\* C4: a text with an invalid line is never accepted: the loop does not get
\* past the first invalid line, and the parse ends with an error that holds
\* no Lists value but the 1-based index of the first invalid line among all
\* lines of the text, that line trimmed, and its reason; the error is that
\* of the lines up to the first invalid one, whatever follows them.
C4_FailFast ==
    /\ ret.tag = "Ok" => ~HasInvalid
    /\ ret.tag = "Err" =>
          /\ HasInvalid
          /\ ret = [tag |-> "Err", lineno |-> FirstInvalid,
                    line |-> Trim(RawLines[FirstInvalid]),
                    reason |-> parse_compromised_entry(Trim(RawLines[FirstInvalid])).reason]
          /\ lineno + 1 = FirstInvalid
    /\ (ret.tag = "Running" /\ HasInvalid) => lineno < FirstInvalid

\* an error at the second line or later, after a blank or comment line, with
\* at least one more line after the invalid one
C4_Witness ==
    /\ ret.tag = "Err"
    /\ ret.lineno >= 2
    /\ Skipped(Trim(RawLines[1]))
    /\ Len(RawLines) > ret.lineno

\* C10: the reason "Empty name part" is never produced for a line of the
\* file, and every name of the names set and every name and version of the
\* exact set is a non-empty string.
C10_NameNeverEmpty ==
    /\ ret.tag = "Err" => ret.reason # "Empty name part"
    /\ \A n \in names : n # <<>>
    /\ \A p \in exact : p[1] # <<>> /\ p[2] # <<>>

\* an accepted text with a scoped exact entry, split at its second '@'
C10_Witness ==
    /\ ret.tag = "Ok"
    /\ \E p \in ret.exact : p[1][1] = AT

----------------------------------------------------------------------------
(* Properties of parse_compromised_entry (SpecEntry).                      *)

Parsed == entry.tag \notin {"Pending", "Idle"}

\* C5 as stated: "foo@" and "@foo" both fail with "Empty version part".
C5_Original ==
    (Parsed /\ line \in {L_foo_at, L_at_foo}) => entry = Invalid("Empty version part")

\* C5, amended: "foo@" fails with "Empty version part"; "@foo", which starts
\* with '@' and holds no other '@', is the name-only entry Name("@foo");
\* neither gives an Exact entry.
C5_EmptyVersion ==
    /\ (Parsed /\ line = L_foo_at) => entry = Invalid("Empty version part")
    /\ (Parsed /\ line = L_at_foo) => entry = Name(L_at_foo)

\* "@foo" has been parsed, to a name-only entry
C5_Witness == line = L_at_foo /\ entry.tag = "Name"

\* C6 as stated: "foo@/bar" fails with "Version does not start with
\* alphanumeric".
C6_Original ==
    (Parsed /\ line = L_foo_at_slash_bar) =>
        entry = Invalid("Version does not start with alphanumeric")

\* C6, amended: "foo@/bar" fails with "Version contains '/'", the check that
\* comes first; "Version does not start with alphanumeric" is the reason for
\* a version part without '/' such as that of "foo@-bar".
C6_SlashFirst ==
    /\ (Parsed /\ line = L_foo_at_slash_bar) => entry = Invalid("Version contains '/'")
    /\ (Parsed /\ line = L_foo_at_dash_bar) =>
          entry = Invalid("Version does not start with alphanumeric")

\* "foo@/bar" has been parsed, to an invalid entry
C6_Witness == line = L_foo_at_slash_bar /\ entry.tag = "Invalid"

\* a line as parse_compromised_file hands it over
Handed(l) == l # <<>> /\ ~IsWhitespace(l[1]) /\ ~IsWhitespace(l[Len(l)]) /\ l[1] # HASH
Ats(l) == {i \in 1..Len(l) : l[i] = AT}
\* the parts of l around its i-th character
Before(l, i) == [j \in 1..(i-1) |-> l[j]]
After(l, i) == [j \in 1..(Len(l) - i) |-> l[i + j]]
\* the validation of section 4.1, on the parts around the last '@'
Passes(n, v) ==
    /\ n # <<>>
    /\ v # <<>>
    /\ \A j \in 1..Len(v) : v[j] # SLASH
    /\ IsAsciiAlphanumeric(v[1])

\* C9: a handed-over line is classified by its '@' alone: none, or a single
\* leading one, gives Name(line); several in a line that does not start
\* with '@' give the "Too many @" error; any other line is split at its last
\* '@' and, when the parts pass the validation, gives Exact with the name
\* before that '@' (a leading '@' included) and the version after it.
C9_Classification ==
    (Parsed /\ Handed(line)) =>
        LET n == Cardinality(Ats(line))
            scoped == line[1] = AT
        IN  IF n = 0 \/ (scoped /\ n = 1) THEN entry = Name(line)
            ELSE IF ~scoped /\ n > 1
                 THEN entry = Invalid("Too many @ characters for unscoped package")
            ELSE LET last == CHOOSE i \in Ats(line) : \A j \in Ats(line) : j <= i
                 IN  /\ entry.tag \in {"Exact", "Invalid"}
                     /\ entry.tag = "Invalid" =>
                           entry.reason # "Too many @ characters for unscoped package"
                     /\ Passes(Before(line, last), After(line, last)) =>
                           entry = Exact(Before(line, last), After(line, last))
                     /\ entry.tag = "Exact" => Passes(Before(line, last), After(line, last))

\* "@scope/pkg@2.0.0" has been parsed, to the exact entry of "@scope/pkg"
C9_Witness ==
    /\ line = L_scope_pkg_at_200
    /\ entry = Exact(L_scope_pkg, <<50, 46, 48, 46, 48>>)

----------------------------------------------------------------------------
(* Properties of collect_deps (SpecTree).                                  *)

RECURSIVE NodesUnder(_, _, _)
\* the nodes under a "dependencies" member d reached by the path of names p,
\* each with its path, its name, its "version" member, and the number of its
\* ancestors that have no string version
NodesUnder(d, p, bare) ==
    IF d.kind # "object" THEN {}
    ELSE UNION {
            {[path |-> Append(p, k), name |-> k, version |-> d.map[k].version, bare |-> bare]}
            \cup NodesUnder(d.map[k].dependencies, Append(p, k),
                            bare + (IF d.map[k].version.kind = "string" THEN 0 ELSE 1))
            : k \in DOMAIN d.map}

TreeNodes == NodesUnder(root.dependencies, <<>>, 0)
Versioned == {o \in TreeNodes : o.version.kind = "string"}
PairOf(o) == Dep(o.name, o.version.str)
Entries == {flat.deps[i] : i \in 1..Len(flat.deps)}

RECURSIVE LexBefore(_, _)
\* a before b in lexicographic order
LexBefore(a, b) ==
    IF b = <<>> THEN FALSE
    ELSE IF a = <<>> THEN TRUE
    ELSE Head(a) < Head(b) \/ (Head(a) = Head(b) /\ LexBefore(Tail(a), Tail(b)))

PairBefore(x, y) ==
    LexBefore(x.name, y.name) \/ (x.name = y.name /\ LexBefore(x.version, y.version))

\* C3: the list collect_deps returns holds the (name, version) pair of a
\* node once, whatever the number of nodes that carry it, holds the pairs
\* of one name at two versions both, and is strictly ascending by
\* (name, version) in lexicographic order.
C3_UniqueSorted ==
    flat.tag = "Ok" =>
        /\ \A o \in Versioned :
              Cardinality({i \in 1..Len(flat.deps) : flat.deps[i] = PairOf(o)}) = 1
        /\ \A i, j \in 1..Len(flat.deps) : i # j => flat.deps[i] # flat.deps[j]
        /\ \A i, j \in 1..Len(flat.deps) : i < j => PairBefore(flat.deps[i], flat.deps[j])

\* a tree with one pair on two paths and the same name at another version,
\* whose pairs were met in another order than the sorted one
C3_Witness ==
    /\ flat.tag = "Ok"
    /\ \E o, q \in Versioned : o.path # q.path /\ PairOf(o) = PairOf(q)
    /\ \E o, q \in Versioned : o.name = q.name /\ o.version # q.version
    /\ acc # flat.deps

\* C7: the list collect_deps returns holds the pair of every node with a
\* string version at any depth under the root's "dependencies", whether or
\* not its ancestors have a string version, and nothing else: a node
\* without a string version gives no entry; the only result is Ok.
C7_AllVersionedNodes ==
    /\ flat.tag \in {"Start", "Loop", "Ok"}
    /\ flat.tag = "Ok" => stack = <<>>
    /\ flat.tag = "Ok" => Entries = {PairOf(o) : o \in Versioned}

\* a node listed although two of its ancestors have no string version, one
\* without the member and one with a member of another type
C7_Witness ==
    /\ flat.tag = "Ok"
    /\ \E o \in Versioned : o.bare = 2 /\ PairOf(o) \in Entries
    /\ \E o, q \in TreeNodes : o.version = Absent /\ q.version = Other

\* C8 as stated: every Dependency returned has a non-empty name and a
\* non-empty version, for any string as a key and any string as a version.
C8_Original ==
    flat.tag = "Ok" => \A e \in Entries : e.name # <<>> /\ e.version # <<>>

\* C8, amended: a Dependency returned has the name of a mapping key and the
\* version string of a node under that key, as they are: its name is empty
\* only if a key is, its version only if that node's version string is, so
\* both are non-empty when every key and version string of the document is.
C8_CopiedAsIs ==
    flat.tag = "Ok" =>
        /\ \A e \in Entries :
              /\ e.name = <<>> => \E o \in TreeNodes : o.name = <<>>
              /\ e.version = <<>> => \E o \in TreeNodes : o.name = e.name /\ o.version = Str(<<>>)
        /\ (\A o \in TreeNodes : o.name # <<>> /\ o.version # Str(<<>>)) =>
              \A e \in Entries : e.name # <<>> /\ e.version # <<>>

\* a document with the key "" and the version "", and the Dependency with an
\* empty name and an empty version returned for it
C8_Witness ==
    /\ flat.tag = "Ok"
    /\ Dep(<<>>, <<>>) \in Entries

====
